---- MODULE Spec2Model ----
(***************************************************************************)
(* Model of server/verify.go (go-tpm-tools): VerifyAttestation and its     *)
(* helpers validateOpts, validateAKPub, validateAKCert, getInstanceInfo    *)
(* and supportedQuotes.                                                    *)
(*                                                                         *)
(* One call of VerifyAttestation is a state machine: pc is the position    *)
(* inside the function, the other variables are its parameters, its local  *)
(* variables, the values it returns and a log of the collaborator calls it *)
(* made.  Go pointers are modelled by an id field (quotes) and Go nil by   *)
(* the value Nil.                                                          *)
(*                                                                         *)
(* Spec is one call of VerifyAttestation.  SpecSelect, SpecInfo and        *)
(* SpecCert apply supportedQuotes, getInstanceInfo and validateAKCert on   *)
(* their own; SpecConcurrent runs the certificate branch of two calls that *)
(* were given the same VerifyOpts value.                                   *)
(***************************************************************************)
EXTENDS Integers, Sequences, FiniteSets, TLC

VARIABLES
    opts,          \* the VerifyOpts parameter (a copy owned by the call)
    attestation,   \* the *pb.Attestation parameter
    pc,            \* position in VerifyAttestation
    akPubKey,      \* local akPubKey
    machineState,  \* local machineState
    lastErr,       \* local lastErr
    candidates,    \* the part of supportedQuotes(...) the range loop has not visited
    state,         \* local state (primary-log fragment of the current candidate)
    celState,      \* local celState (canonical-log fragment of the current candidate)
    akCert,        \* local akCert (the certificate parsed from the bundle)
    ret,           \* how the call ended: returned state, returned error, panic
    calls,         \* log of the collaborator calls made so far
    sqIn,          \* input of a stand-alone supportedQuotes application
    sqOut,         \* its output
    callerOpts,    \* the VerifyOpts value the caller passed (opts is the call's copy)
    x509Opts,      \* the x509.VerifyOptions validateAKCert handed to akCert.Verify
    helperIn,      \* argument of a stand-alone getInstanceInfo / validateAKCert application
    helperOut,     \* its result
    backingArray,  \* the array behind callerOpts.IntermediateCerts, spare capacity included
    goroutines     \* two concurrent calls that were given the same callerOpts

vars == <<opts, attestation, pc, akPubKey, machineState, lastErr, candidates,
          state, celState, akCert, ret, calls, sqIn, sqOut, callerOpts, x509Opts,
          helperIn, helperOut, backingArray, goroutines>>

\* The variables of the stand-alone helper applications and of the two
\* concurrent calls; one call of VerifyAttestation leaves them alone.
helperVars == <<sqIn, sqOut, helperIn, helperOut>>
concurrentVars == <<backingArray, goroutines>>

----------------------------------------------------------------------------
(* Values *)

\* Go nil (a nil pointer, a nil error, a nil or empty byte slice).
Nil == [nil |-> TRUE]

\* Bytes that do not parse (an undecodable certificate or ASN.1 blob).
Malformed == [malformed |-> TRUE]

\* Largest number of quotes in an attestation.
MaxQuotes == 2

Keys == {"k1", "k2"}

\* A nil crypto.PublicKey.
NoKey == ""

Nonces == {"n1", "n2"}

\* internal.SignatureHashAlgs: the signature hash preference list.
SignatureHashAlgs == <<"SHA512", "SHA384", "SHA256">>

AlgSHA1 == "SHA1"

\* var pcrHashAlgs = append(internal.SignatureHashAlgs, tpm2.AlgSHA1)
pcrHashAlgs == Append(SignatureHashAlgs, AlgSHA1)

\* An algorithm outside the preference list.
AlgUnsupported == "SM3_256"

oidExtensionSubjectAltName == "2.5.29.17"

cloudComputeInstanceIdentifierOID == "1.3.6.1.4.1.11129.2.1.21"

\* Some other object identifier.
oidOther == "2.5.29.99"
oidExtensionNameConstraints == "2.5.29.30"

Range(s) == {s[i] : i \in 1..Len(s)}

----------------------------------------------------------------------------
(* Errors.  fmt.Errorf("msg: %w", err) is Wrap(msg, err). *)

Error(msg) == [msg |-> msg, cause |-> Nil]

Wrap(msg, err) == [msg |-> msg, cause |-> err]

\* The error a collaborator returns for one quote.  Its text is the
\* collaborator's own; from and quote record the call that produced it.
CollabError(fn, quote) == [from |-> fn, quote |-> quote.id]

----------------------------------------------------------------------------
(* Collaborators: internal.VerifyQuote, parsePCClientEventLog,              *)
(* parseCanonicalEventLog, internal.PubKeysEqual, parseCerts, and the       *)
(* library calls tpm2.DecodePublic, Public.Key, x509.ParseCertificate,      *)
(* Certificate.Verify, proto.Merge.                                         *)

\* internal.PubKeysEqual(k1, k2)
PubKeysEqual(a, b) == a = b

\* internal.VerifyQuote(quote, key, nonce): the quote was signed by key over nonce.
VerifyQuote(quote, key, nonce) ==
    IF quote.signer = key /\ quote.nonce = nonce
    THEN Nil
    ELSE CollabError("VerifyQuote", quote)

\* The MachineState a log replay yields carries what it read from the log under
\* the bank of the PCRs it was given.
Measured(log, quote) == [log |-> log, pcrs |-> quote.id, hash |-> quote.Hash]

EmptyMachineState ==
    [Platform |-> Nil, Hash |-> "HASH_INVALID", RawEvents |-> <<>>, Cos |-> Nil]

\* parsePCClientEventLog(attestation.GetEventLog(), pcrs)
parsePCClientEventLog(quote) ==
    IF quote.replaysEventLog
    THEN [state |-> [Platform |-> [Firmware |-> Measured("EventLog", quote),
                                   InstanceInfo |-> Nil],
                     Hash |-> quote.Hash,
                     RawEvents |-> <<Measured("EventLog", quote)>>,
                     Cos |-> Nil],
          err |-> Nil]
    ELSE [state |-> Nil, err |-> CollabError("parsePCClientEventLog", quote)]

\* parseCanonicalEventLog(attestation.GetCanonicalEventLog(), pcrs)
parseCanonicalEventLog(quote) ==
    IF quote.replaysCanonicalEventLog
    THEN [state |-> [Platform |-> Nil,
                     Hash |-> "HASH_INVALID",
                     RawEvents |-> <<>>,
                     Cos |-> Measured("CanonicalEventLog", quote)],
          err |-> Nil]
    ELSE [state |-> Nil, err |-> CollabError("parseCanonicalEventLog", quote)]

\* proto.Merge on a PlatformState: a set field of src replaces dst's.
MergePlatform(dst, src) ==
    IF src = Nil THEN dst
    ELSE IF dst = Nil THEN src
    ELSE [Firmware |-> IF src.Firmware = Nil THEN dst.Firmware ELSE src.Firmware,
          InstanceInfo |-> IF src.InstanceInfo = Nil THEN dst.InstanceInfo
                           ELSE src.InstanceInfo]

\* proto.Merge(dst, src) for a non-nil dst: scalars of src that are set replace
\* dst's, repeated fields are appended, message fields are merged.
Merge(dst, src) ==
    IF src = Nil THEN dst
    ELSE [Platform |-> MergePlatform(dst.Platform, src.Platform),
          Hash |-> IF src.Hash = "HASH_INVALID" THEN dst.Hash ELSE src.Hash,
          RawEvents |-> dst.RawEvents \o src.RawEvents,
          Cos |-> IF src.Cos = Nil THEN dst.Cos ELSE src.Cos]

\* parseCerts(rawCerts): every certificate parses, or an error.
parseCerts(rawCerts) ==
    IF \E i \in 1..Len(rawCerts) : rawCerts[i] = Malformed
    THEN [certs |-> <<>>, err |-> Error("failed to parse certificate")]
    ELSE [certs |-> rawCerts, err |-> Nil]

\* A chain of at most n intermediates leads from issuer to a root.
RECURSIVE ChainsTo(_, _, _, _)
ChainsTo(issuer, roots, inters, n) ==
    \/ \E r \in roots : r.Subject = issuer
    \/ /\ n > 0
       /\ \E i \in inters : /\ i.Subject = issuer
                            /\ ChainsTo(i.Issuer, roots, inters \ {i}, n - 1)

\* akCert.Verify(x509Opts): no unhandled critical extension is left and the
\* certificate chains to a root of the pool.
CertVerify(cert, unhandled, roots, inters) ==
    IF unhandled # <<>>
    THEN Error("x509: unhandled critical extension")
    ELSE IF ChainsTo(cert.Issuer, roots, inters, Cardinality(inters))
    THEN Nil
    ELSE Error("x509: certificate signed by unknown authority")

\* makePool(certs)
makePool(certs) == Range(certs)

----------------------------------------------------------------------------
(* validateOpts, validateAKPub *)

\* validateOpts with the second check lost: both mechanisms are accepted.
validateOpts_AcceptsBoth(o) ==
    IF Len(o.TrustedAKs) = 0 /\ Len(o.TrustedRootCerts) = 0
    THEN Error("no trust mechanism provided, either use TrustedAKs or TrustedRootCerts")
    ELSE Nil

validateOpts(o) ==
    LET checkPub == Len(o.TrustedAKs) > 0
        checkCert == Len(o.TrustedRootCerts) > 0
    IN IF ~checkPub /\ ~checkCert
       THEN Error("no trust mechanism provided, either use TrustedAKs or TrustedRootCerts")
       ELSE IF checkPub /\ checkCert
       THEN Error("multiple trust mechanisms provided, only use one of TrustedAKs or TrustedRootCerts")
       ELSE Nil

\* validateAKPub that trusts a key as soon as any key is trusted.
validateAKPub_TrustsAnyKey(ak, o) ==
    IF Len(o.TrustedAKs) > 0 THEN Nil ELSE Error("key not trusted")

\* validateAKPub that trusts every key when no allow-list is configured.
validateAKPub_NoAllowListTrustsAll(ak, o) ==
    IF Len(o.TrustedAKs) = 0 \/ \E i \in 1..Len(o.TrustedAKs) : PubKeysEqual(ak, o.TrustedAKs[i])
    THEN Nil
    ELSE Error("key not trusted")

validateAKPub(ak, o) ==
    IF \E i \in 1..Len(o.TrustedAKs) : PubKeysEqual(ak, o.TrustedAKs[i])
    THEN Nil
    ELSE Error("key not trusted")

----------------------------------------------------------------------------
(* getInstanceInfo *)

\* The value of the first extension with the instance-identifier OID, or Nil.
RECURSIVE FirstInstanceExtension(_)
FirstInstanceExtension(extensions) ==
    IF extensions = <<>> THEN Nil
    ELSE IF Head(extensions).Id = cloudComputeInstanceIdentifierOID
    THEN Head(extensions).Value
    ELSE FirstInstanceExtension(Tail(extensions))

\* asn1.Unmarshal(rawInfo, &info)
Unmarshal(rawInfo) ==
    IF rawInfo = Malformed
    THEN [info |-> Nil, err |-> Error("asn1: structure error")]
    ELSE [info |-> rawInfo, err |-> Nil]

\* uint64(x) of an int64: the value itself, or 2^64 - |x| for a negative one.
Uint64(x) == IF x >= 0 THEN x ELSE [twoTo64Minus |-> 0 - x]

\* getInstanceInfo with the production check made before the sign check.
getInstanceInfo_ProductionFirst(extensions) ==
    LET rawInfo == FirstInstanceExtension(extensions)
        dec == Unmarshal(rawInfo)
        info == dec.info
    IN IF rawInfo = Nil
       THEN [info |-> Nil, err |-> Nil]
       ELSE IF dec.err # Nil
       THEN [info |-> Nil,
             err |-> Wrap("failed to parse GCE Instance Information Extension", dec.err)]
       ELSE IF ~info.SecurityProperties.IsProduction
       THEN [info |-> Nil, err |-> Nil]
       ELSE IF \/ info.ProjectNumber < 0
               \/ info.InstanceID < 0
               \/ info.SecurityProperties.SecurityVersion < 0
       THEN [info |-> Nil,
             err |-> Error("negative integer fields found in GCE Instance Information Extension")]
       ELSE [info |-> [Zone |-> info.Zone,
                       ProjectId |-> info.ProjectID,
                       ProjectNumber |-> Uint64(info.ProjectNumber),
                       InstanceName |-> info.InstanceName,
                       InstanceId |-> Uint64(info.InstanceID)],
             err |-> Nil]

getInstanceInfo(extensions) ==
    LET rawInfo == FirstInstanceExtension(extensions)
        dec == Unmarshal(rawInfo)
        info == dec.info
    IN IF rawInfo = Nil
       THEN [info |-> Nil, err |-> Nil]
       ELSE IF dec.err # Nil
       THEN [info |-> Nil,
             err |-> Wrap("failed to parse GCE Instance Information Extension", dec.err)]
       ELSE IF \/ info.ProjectNumber < 0
               \/ info.InstanceID < 0
               \/ info.SecurityProperties.SecurityVersion < 0
       THEN [info |-> Nil,
             err |-> Error("negative integer fields found in GCE Instance Information Extension")]
       ELSE IF ~info.SecurityProperties.IsProduction
       THEN [info |-> Nil, err |-> Nil]
       ELSE [info |-> [Zone |-> info.Zone,
                       ProjectId |-> info.ProjectID,
                       ProjectNumber |-> Uint64(info.ProjectNumber),
                       InstanceName |-> info.InstanceName,
                       InstanceId |-> Uint64(info.InstanceID)],
             err |-> Nil]

----------------------------------------------------------------------------
(* validateAKCert *)

\* The fix that clears the list of unhandled critical extensions.
FilterSAN_ClearsList(exts) == <<>>

\* The loop over akCert.UnhandledCriticalExtensions: every entry but SAN.
RECURSIVE FilterSAN(_)
FilterSAN(exts) ==
    IF exts = <<>> THEN <<>>
    ELSE IF Head(exts) = oidExtensionSubjectAltName
    THEN FilterSAN(Tail(exts))
    ELSE <<Head(exts)>> \o FilterSAN(Tail(exts))

\* validateAKCert that goes on after a failed chain verification.
validateAKCert_IgnoresChainError(cert, o) ==
    LET exts == FilterSAN(cert.UnhandledCriticalExtensions)
        ii == getInstanceInfo(cert.Extensions)
        key == cert.PublicKey
    IN IF Len(o.TrustedRootCerts) = 0
       THEN [state |-> Nil, err |-> validateAKPub(key, o),
             unhandled |-> cert.UnhandledCriticalExtensions,
             roots |-> {}, inters |-> {},
             log |-> <<[fn |-> "validateAKPub", quote |-> 0, key |-> key]>>]
       ELSE [state |-> IF ii.err # Nil THEN Nil
                       ELSE [Platform |-> [Firmware |-> Nil, InstanceInfo |-> ii.info],
                             Hash |-> "HASH_INVALID", RawEvents |-> <<>>, Cos |-> Nil],
             err |-> IF ii.err # Nil THEN Wrap("error getting instance info", ii.err) ELSE Nil,
             unhandled |-> exts,
             roots |-> makePool(o.TrustedRootCerts),
             inters |-> makePool(o.IntermediateCerts),
             log |-> <<[fn |-> "Certificate.Verify", quote |-> 0, key |-> key],
                       [fn |-> "getInstanceInfo", quote |-> 0, key |-> key]>>]

\* validateAKCert that returns an empty MachineState: the instance info is lost.
validateAKCert_DropsInstanceInfo(cert, o) ==
    LET exts == FilterSAN(cert.UnhandledCriticalExtensions)
        roots == makePool(o.TrustedRootCerts)
        inters == makePool(o.IntermediateCerts)
        verr == CertVerify(cert, exts, roots, inters)
        ii == getInstanceInfo(cert.Extensions)
        key == cert.PublicKey
    IN IF Len(o.TrustedRootCerts) = 0
       THEN [state |-> Nil, err |-> validateAKPub(key, o),
             unhandled |-> cert.UnhandledCriticalExtensions,
             roots |-> {}, inters |-> {},
             log |-> <<[fn |-> "validateAKPub", quote |-> 0, key |-> key]>>]
       ELSE [state |-> IF verr # Nil \/ ii.err # Nil THEN Nil ELSE EmptyMachineState,
             err |-> IF verr # Nil
                     THEN Wrap("certificate did not chain to a trusted root", verr)
                     ELSE IF ii.err # Nil
                     THEN Wrap("error getting instance info", ii.err)
                     ELSE Nil,
             unhandled |-> exts, roots |-> roots, inters |-> inters,
             log |-> IF verr # Nil
                     THEN <<[fn |-> "Certificate.Verify", quote |-> 0, key |-> key]>>
                     ELSE <<[fn |-> "Certificate.Verify", quote |-> 0, key |-> key],
                            [fn |-> "getInstanceInfo", quote |-> 0, key |-> key]>>]

\* Result: the returned MachineState and error, the certificate's
\* UnhandledCriticalExtensions as the call leaves it, the pools handed to
\* Verify, and the calls made.
validateAKCert(cert, o) ==
    LET exts == FilterSAN(cert.UnhandledCriticalExtensions)
        roots == makePool(o.TrustedRootCerts)
        inters == makePool(o.IntermediateCerts)
        verr == CertVerify(cert, exts, roots, inters)
        ii == getInstanceInfo(cert.Extensions)
        verifyCall == [fn |-> "Certificate.Verify", quote |-> 0, key |-> cert.PublicKey]
        infoCall == [fn |-> "getInstanceInfo", quote |-> 0, key |-> cert.PublicKey]
        pubCall == [fn |-> "validateAKPub", quote |-> 0, key |-> cert.PublicKey]
    IN IF Len(o.TrustedRootCerts) = 0
       THEN [state |-> Nil,
             err |-> validateAKPub(cert.PublicKey, o),
             unhandled |-> cert.UnhandledCriticalExtensions,
             roots |-> {}, inters |-> {},
             log |-> <<pubCall>>]
       ELSE IF verr # Nil
       THEN [state |-> Nil,
             err |-> Wrap("certificate did not chain to a trusted root", verr),
             unhandled |-> exts, roots |-> roots, inters |-> inters,
             log |-> <<verifyCall>>]
       ELSE IF ii.err # Nil
       THEN [state |-> Nil,
             err |-> Wrap("error getting instance info", ii.err),
             unhandled |-> exts, roots |-> roots, inters |-> inters,
             log |-> <<verifyCall, infoCall>>]
       ELSE [state |-> [Platform |-> [Firmware |-> Nil, InstanceInfo |-> ii.info],
                        Hash |-> "HASH_INVALID", RawEvents |-> <<>>, Cos |-> Nil],
             err |-> Nil,
             unhandled |-> exts, roots |-> roots, inters |-> inters,
             log |-> <<verifyCall, infoCall>>]

----------------------------------------------------------------------------
(* supportedQuotes *)

\* The inner loop: the first quote of quotes whose PCR hash is alg, if any.
RECURSIVE FirstWithHash(_, _)
FirstWithHash(quotes, alg) ==
    IF quotes = <<>> THEN <<>>
    ELSE IF Head(quotes).Hash = alg THEN <<Head(quotes)>>
    ELSE FirstWithHash(Tail(quotes), alg)

\* The outer loop over the algorithms algs.
RECURSIVE SelectQuotes(_, _)
SelectQuotes(algs, quotes) ==
    IF algs = <<>> THEN <<>>
    ELSE FirstWithHash(quotes, Head(algs)) \o SelectQuotes(Tail(algs), quotes)

\* supportedQuotes without the break: every quote of each algorithm.
RECURSIVE AllWithHashes(_, _)
AllWithHashes(algs, quotes) ==
    IF algs = <<>> THEN <<>>
    ELSE SelectSeq(quotes, LAMBDA q : q.Hash = Head(algs)) \o AllWithHashes(Tail(algs), quotes)

supportedQuotes_NoBreak(quotes) == AllWithHashes(pcrHashAlgs, quotes)

\* supportedQuotes with the loops exchanged: the supported quotes in input order.
supportedQuotes_InputOrder(quotes) ==
    SelectSeq(quotes, LAMBDA q : \E i \in 1..Len(pcrHashAlgs) : pcrHashAlgs[i] = q.Hash)

supportedQuotes(quotes) == SelectQuotes(pcrHashAlgs, quotes)

----------------------------------------------------------------------------
(* Inputs *)

RootR1 ==
    [Subject |-> "R1", Issuer |-> "R1", PublicKey |-> "kR1",
     UnhandledCriticalExtensions |-> <<>>, Extensions |-> <<>>]

InterI1 ==
    [Subject |-> "I1", Issuer |-> "R1", PublicKey |-> "kI1",
     UnhandledCriticalExtensions |-> <<>>, Extensions |-> <<>>]

\* A self-signed certificate that is no root of the verifier.
RootRX ==
    [Subject |-> "RX", Issuer |-> "RX", PublicKey |-> "kRX",
     UnhandledCriticalExtensions |-> <<>>, Extensions |-> <<>>]

\* The decoded gceInstanceInfo of an extension value.
InstanceInfoValue(projectNumber, isProduction) ==
    [Zone |-> "us-east1-b", ProjectNumber |-> projectNumber, ProjectID |-> "proj",
     InstanceID |-> 7, InstanceName |-> "vm",
     SecurityProperties |-> [SecurityVersion |-> 1, IsProduction |-> isProduction]]

InstanceExtension(value) == [Id |-> cloudComputeInstanceIdentifierOID, Value |-> value]

\* Issuer, unhandled critical extensions and extensions of the AK certificates.
CertProfiles ==
    { <<"R1", <<oidExtensionSubjectAltName>>, <<InstanceExtension(InstanceInfoValue(42, TRUE))>> >>,
      <<"I1", <<>>, <<>> >>,
      <<"R1", <<oidExtensionSubjectAltName, oidOther>>, <<>> >>,
      <<"R1", <<>>, <<InstanceExtension(InstanceInfoValue(-1, TRUE))>> >>,
      <<"R1", <<>>, <<InstanceExtension(InstanceInfoValue(42, FALSE))>> >>,
      <<"R1", <<>>, <<InstanceExtension(Malformed)>> >>,
      <<"RX", <<>>, <<>> >> }

AKCert(key, profile) ==
    [Subject |-> "AK", Issuer |-> profile[1], PublicKey |-> key,
     UnhandledCriticalExtensions |-> profile[2], Extensions |-> profile[3]]

AKCerts == {AKCert(k, p) : k \in Keys, p \in CertProfiles}

\* The TPM public areas: undecodable bytes, an area whose key type Key() does
\* not support, and areas holding a key.
PublicArea(key) == [Type |-> "RSA", Key |-> key]

AkPubs == {Malformed, [Type |-> "KEYEDHASH", Key |-> NoKey]} \cup {PublicArea(k) : k \in Keys}

\* A quote: id stands for the pointer, Hash is GetPcrs().GetHash(), signer and
\* nonce are what the signature was made with and over, and the two flags say
\* whether the bundle's logs replay against the quote's PCR values.
QuoteBodies ==
    [Hash : {"SHA384", "SHA256", AlgSHA1, AlgUnsupported},
     signer : Keys, nonce : {"n1"},
     replaysEventLog : BOOLEAN, replaysCanonicalEventLog : BOOLEAN]

WithId(body, i) ==
    [id |-> i, Hash |-> body.Hash, signer |-> body.signer, nonce |-> body.nonce,
     replaysEventLog |-> body.replaysEventLog,
     replaysCanonicalEventLog |-> body.replaysCanonicalEventLog]

QuoteLists(bodies, n) ==
    UNION { { [i \in 1..k |-> WithId(f[i], i)] : f \in [1..k -> bodies] } : k \in 0..n }

GoodQuote(alg) ==
    [Hash |-> alg, signer |-> "k1", nonce |-> "n1",
     replaysEventLog |-> TRUE, replaysCanonicalEventLog |-> TRUE]

Attestation(akPub, cert, inters, quotes) ==
    [AkPub |-> akPub, AkCert |-> cert, IntermediateCerts |-> inters, Quotes |-> quotes]

\* Every identity and every option, with at most one quote that verifies.
AllOpts ==
    [Nonce : Nonces, TrustedAKs : {<<>>, <<"k1">>, <<"k2", "k1">>},
     AllowSHA1 : BOOLEAN, TrustedRootCerts : {<<>>, <<RootR1>>},
     IntermediateCerts : {<<>>, <<InterI1>>}]

IdentityAttestations ==
    { Attestation(p, c, i, q) :
        p \in AkPubs, c \in {Nil, Malformed} \cup AKCerts,
        i \in {<<>>, <<InterI1>>, <<Malformed>>, <<RootRX>>},
        q \in QuoteLists({GoodQuote("SHA256"), GoodQuote(AlgSHA1)}, 1) }

\* Every list of quotes, with the identities of the three trust paths.
CoreOpts ==
    [Nonce : {"n1"}, TrustedAKs : {<<>>, <<"k1">>},
     AllowSHA1 : BOOLEAN, TrustedRootCerts : {<<>>, <<RootR1>>},
     IntermediateCerts : {<<>>}]

QuoteAttestations ==
    { Attestation(PublicArea("k1"), c, <<>>, q) :
        c \in {Nil, AKCert("k1", <<"R1", <<oidExtensionSubjectAltName>>,
                                   <<InstanceExtension(InstanceInfoValue(42, TRUE))>> >>)},
        q \in QuoteLists(QuoteBodies, MaxQuotes) }

NoReturn == [state |-> Nil, err |-> Nil, panic |-> FALSE, returned |-> FALSE]

Init ==
    /\ \/ opts \in AllOpts /\ attestation \in IdentityAttestations
       \/ opts \in CoreOpts /\ attestation \in QuoteAttestations
    /\ pc = "validateOpts"
    /\ akPubKey = NoKey
    /\ machineState = Nil
    /\ lastErr = Nil
    /\ candidates = <<>>
    /\ state = Nil
    /\ celState = Nil
    /\ akCert = Nil
    /\ ret = NoReturn
    /\ calls = <<>>
    /\ sqIn = <<>>
    /\ sqOut = <<>>
    /\ callerOpts = opts
    /\ x509Opts = Nil
    /\ helperIn = Nil
    /\ helperOut = Nil
    /\ backingArray = <<>>
    /\ goroutines = <<>>

----------------------------------------------------------------------------
(* VerifyAttestation *)

Call(fn, quoteId, key, nonce) == [fn |-> fn, quote |-> quoteId, key |-> key, nonce |-> nonce]

\* return s, e
Return(s, e) ==
    /\ ret' = [state |-> s, err |-> e, panic |-> FALSE, returned |-> TRUE]
    /\ pc' = "done"

\* The call unwinds with a panic: nothing is returned.
Panic ==
    /\ ret' = [state |-> Nil, err |-> Nil, panic |-> TRUE, returned |-> FALSE]
    /\ pc' = "done"

\* if err := validateOpts(opts); err != nil { return nil, "bad options" }
\* machineState := &pb.MachineState{}
ValidateOpts ==
    /\ pc = "validateOpts"
    /\ LET err == validateOpts(opts)
       IN IF err # Nil
          THEN /\ Return(Nil, Wrap("bad options", err))
               /\ UNCHANGED machineState
          ELSE /\ pc' = "identity"
               /\ machineState' = EmptyMachineState
               /\ UNCHANGED ret
    /\ UNCHANGED <<opts, attestation, akPubKey, lastErr, candidates, state,
                   celState, akCert, calls, callerOpts, x509Opts,
                   helperVars, concurrentVars>>

\* The branch len(attestation.GetAkCert()) == 0: the key, the error and the
\* calls made.
identityFromAkPub(att, o) ==
    LET area == att.AkPub
        decodeCall == Call("tpm2.DecodePublic", 0, "", "")
    IN IF area = Malformed
       THEN [key |-> NoKey, log |-> <<decodeCall>>,
             err |-> Wrap("failed to decode AK public area", Error("decoding failed"))]
       ELSE IF area.Type \notin {"RSA", "ECC"}
       THEN [key |-> NoKey, log |-> <<decodeCall>>,
             err |-> Wrap("failed to get AK public key", Error("unsupported public key type"))]
       ELSE IF validateAKPub(area.Key, o) # Nil
       THEN [key |-> area.Key,
             log |-> <<decodeCall, Call("validateAKPub", 0, area.Key, "")>>,
             err |-> Wrap("failed to validate AK public key", validateAKPub(area.Key, o))]
       ELSE [key |-> area.Key,
             log |-> <<decodeCall, Call("validateAKPub", 0, area.Key, "")>>,
             err |-> Nil]

IdentityAkPub ==
    /\ pc = "identity"
    /\ attestation.AkCert = Nil
    /\ LET r == identityFromAkPub(attestation, opts)
       IN /\ calls' = calls \o r.log
          /\ IF r.err # Nil
             THEN /\ Return(Nil, r.err)
                  /\ UNCHANGED akPubKey
             ELSE /\ akPubKey' = r.key
                  /\ pc' = "range"
                  /\ UNCHANGED ret
    /\ UNCHANGED <<opts, attestation, machineState, lastErr, candidates, state,
                   celState, akCert, callerOpts, x509Opts,
                   helperVars, concurrentVars>>

\* The else branch: the AK certificate is presented.
IdentityAkCert ==
    /\ pc = "identity"
    /\ attestation.AkCert # Nil
    /\ LET parseCall == Call("x509.ParseCertificate", 0, "", "")
           certs == parseCerts(attestation.IntermediateCerts)
           newOpts == [opts EXCEPT !.IntermediateCerts = @ \o certs.certs]
           cert == attestation.AkCert
           r == validateAKCert(cert, newOpts)
       IN IF cert = Malformed
          THEN /\ Return(Nil, Wrap("failed to parse AK certificate", Error("x509: malformed certificate")))
               /\ calls' = Append(calls, parseCall)
               /\ UNCHANGED <<opts, machineState, akPubKey, akCert, x509Opts>>
          ELSE IF certs.err # Nil
          THEN /\ Return(Nil, Wrap("attestation intermediates", certs.err))
               /\ calls' = calls \o <<parseCall, Call("parseCerts", 0, "", "")>>
               /\ akCert' = cert
               /\ UNCHANGED <<opts, machineState, akPubKey, x509Opts>>
          ELSE /\ opts' = newOpts
               /\ machineState' = r.state
               /\ akCert' = [cert EXCEPT !.UnhandledCriticalExtensions = r.unhandled]
               /\ x509Opts' = IF Len(newOpts.TrustedRootCerts) = 0
                              THEN x509Opts
                              ELSE [Roots |-> r.roots, Intermediates |-> r.inters]
               /\ calls' = calls \o <<parseCall, Call("parseCerts", 0, "", "")>>
                                 \o [i \in 1..Len(r.log) |->
                                        Call(r.log[i].fn, 0, r.log[i].key, "")]
               /\ IF r.err # Nil
                  THEN /\ Return(Nil, Wrap("failed to validate AK certificate", r.err))
                       /\ UNCHANGED akPubKey
                  ELSE /\ akPubKey' = cert.PublicKey
                       /\ pc' = "range"
                       /\ UNCHANGED ret
    /\ UNCHANGED <<attestation, lastErr, candidates, state, celState, callerOpts,
                   helperVars, concurrentVars>>

\* for _, quote := range supportedQuotes(attestation.GetQuotes())
RangeQuotes ==
    /\ pc = "range"
    /\ candidates' = supportedQuotes(attestation.Quotes)
    /\ pc' = IF candidates' = <<>> THEN "exhausted" ELSE "quote"
    /\ UNCHANGED <<opts, attestation, akPubKey, machineState, lastErr, state,
                   celState, akCert, ret, calls, callerOpts, x509Opts,
                   helperVars, concurrentVars>>

\* continue that records an error only when none is recorded yet.
Continue_KeepsFirstError(err) ==
    /\ lastErr' = IF lastErr = Nil THEN err ELSE lastErr
    /\ candidates' = Tail(candidates)
    /\ pc' = IF Tail(candidates) = <<>> THEN "exhausted" ELSE "quote"
    /\ state' = Nil
    /\ celState' = Nil

\* lastErr = err; continue
Continue(err) ==
    /\ lastErr' = err
    /\ candidates' = Tail(candidates)
    /\ pc' = IF Tail(candidates) = <<>> THEN "exhausted" ELSE "quote"
    /\ state' = Nil
    /\ celState' = Nil

\* The loop body with the SHA-1 policy checked before the quote.
CheckQuote_PolicyFirst ==
    /\ pc = "quote"
    /\ LET quote == Head(candidates)
           err == VerifyQuote(quote, akPubKey, opts.Nonce)
       IN IF ~opts.AllowSHA1 /\ quote.Hash = AlgSHA1
          THEN /\ Continue(Error("SHA-1 is not allowed for verification (set VerifyOpts.AllowSHA1 to true to allow)"))
               /\ UNCHANGED calls
          ELSE /\ calls' = Append(calls, Call("VerifyQuote", quote.id, akPubKey, opts.Nonce))
               /\ IF err # Nil
                  THEN Continue(Wrap("failed to verify quote", err))
                  ELSE /\ pc' = "pcclient"
                       /\ UNCHANGED <<lastErr, candidates, state, celState>>
    /\ UNCHANGED <<opts, attestation, akPubKey, machineState, akCert, ret, callerOpts, x509Opts,
                   helperVars, concurrentVars>>

\* internal.VerifyQuote(quote, akPubKey, opts.Nonce)
CheckQuote ==
    /\ pc = "quote"
    /\ LET quote == Head(candidates)
           err == VerifyQuote(quote, akPubKey, opts.Nonce)
       IN /\ calls' = Append(calls, Call("VerifyQuote", quote.id, akPubKey, opts.Nonce))
          /\ IF err # Nil
             THEN Continue(Wrap("failed to verify quote", err))
             ELSE /\ pc' = "pcclient"
                  /\ UNCHANGED <<lastErr, candidates, state, celState>>
    /\ UNCHANGED <<opts, attestation, akPubKey, machineState, akCert, ret, callerOpts, x509Opts,
                   helperVars, concurrentVars>>

\* The primary-log replay that merges its fragment into machineState at once.
ReplayEventLog_MergesAtOnce ==
    /\ pc = "pcclient"
    /\ LET quote == Head(candidates)
           r == parsePCClientEventLog(quote)
       IN /\ calls' = Append(calls, Call("parsePCClientEventLog", quote.id, "", ""))
          /\ IF r.err # Nil
             THEN /\ Continue(Wrap("failed to validate the PCClient event log", r.err))
                  /\ UNCHANGED machineState
             ELSE /\ state' = r.state
                  /\ machineState' = IF machineState = Nil THEN Nil
                                     ELSE Merge(machineState, r.state)
                  /\ pc' = "cel"
                  /\ UNCHANGED <<lastErr, candidates, celState>>
    /\ UNCHANGED <<opts, attestation, akPubKey, akCert, ret, callerOpts, x509Opts,
                   helperVars, concurrentVars>>

\* state, err := parsePCClientEventLog(attestation.GetEventLog(), pcrs)
ReplayEventLog ==
    /\ pc = "pcclient"
    /\ LET quote == Head(candidates)
           r == parsePCClientEventLog(quote)
       IN /\ calls' = Append(calls, Call("parsePCClientEventLog", quote.id, "", ""))
          /\ IF r.err # Nil
             THEN Continue(Wrap("failed to validate the PCClient event log", r.err))
             ELSE /\ state' = r.state
                  /\ pc' = "cel"
                  /\ UNCHANGED <<lastErr, candidates, celState>>
    /\ UNCHANGED <<opts, attestation, akPubKey, machineState, akCert, ret, callerOpts, x509Opts,
                   helperVars, concurrentVars>>

\* The canonical-log replay that reports its failure with the message of the
\* primary-log replay.
ReplayCanonicalEventLog_PCClientMessage ==
    /\ pc = "cel"
    /\ LET quote == Head(candidates)
           r == parseCanonicalEventLog(quote)
       IN /\ calls' = Append(calls, Call("parseCanonicalEventLog", quote.id, "", ""))
          /\ IF r.err # Nil
             THEN Continue(Wrap("failed to validate the PCClient event log", r.err))
             ELSE /\ celState' = r.state
                  /\ pc' = "policy"
                  /\ UNCHANGED <<lastErr, candidates, state>>
    /\ UNCHANGED <<opts, attestation, akPubKey, machineState, akCert, ret, callerOpts, x509Opts,
                   helperVars, concurrentVars>>

\* celState, err := parseCanonicalEventLog(attestation.GetCanonicalEventLog(), pcrs)
ReplayCanonicalEventLog ==
    /\ pc = "cel"
    /\ LET quote == Head(candidates)
           r == parseCanonicalEventLog(quote)
       IN /\ calls' = Append(calls, Call("parseCanonicalEventLog", quote.id, "", ""))
          /\ IF r.err # Nil
             THEN Continue(Wrap("failed to validate the Canonical event log", r.err))
             ELSE /\ celState' = r.state
                  /\ pc' = "policy"
                  /\ UNCHANGED <<lastErr, candidates, state>>
    /\ UNCHANGED <<opts, attestation, akPubKey, machineState, akCert, ret, callerOpts, x509Opts,
                   helperVars, concurrentVars>>

\* !opts.AllowSHA1 && tpm2.Algorithm(pcrs.GetHash()) == tpm2.AlgSHA1
sha1Rejected(o, quote) == ~o.AllowSHA1 /\ quote.Hash = AlgSHA1

CheckSHA1 ==
    /\ pc = "policy"
    /\ IF sha1Rejected(opts, Head(candidates))
       THEN Continue(Error("SHA-1 is not allowed for verification (set VerifyOpts.AllowSHA1 to true to allow)"))
       ELSE /\ pc' = "merge"
            /\ UNCHANGED <<lastErr, candidates, state, celState>>
    /\ UNCHANGED <<opts, attestation, akPubKey, machineState, akCert, ret, calls,
                   callerOpts, x509Opts,
                   helperVars, concurrentVars>>

\* proto.Merge(machineState, celState); proto.Merge(machineState, state)
mergeStates(ms, cel, st) == Merge(Merge(ms, cel), st)

\* The two merges and return machineState, nil.  proto.Merge panics when the
\* destination is a nil message.
MergeAndReturn ==
    /\ pc = "merge"
    /\ IF machineState = Nil
       THEN /\ Panic
            /\ UNCHANGED machineState
       ELSE /\ machineState' = mergeStates(machineState, celState, state)
            /\ Return(machineState', Nil)
    /\ UNCHANGED <<opts, attestation, akPubKey, lastErr, candidates, state,
                   celState, akCert, calls, callerOpts, x509Opts,
                   helperVars, concurrentVars>>

\* The end of the function without the lastErr check.
finalError_DropsLastErr(err) == Error("attestation does not contain a supported quote")

\* What follows the loop: the last error, or the no-quote error.
finalError(err) ==
    IF err # Nil THEN err
    ELSE Error("attestation does not contain a supported quote")

ReturnExhausted ==
    /\ pc = "exhausted"
    /\ Return(Nil, finalError(lastErr))
    /\ UNCHANGED <<opts, attestation, akPubKey, machineState, lastErr, candidates,
                   state, celState, akCert, calls, callerOpts, x509Opts,
                   helperVars, concurrentVars>>

Next ==
    \/ ValidateOpts
    \/ IdentityAkPub
    \/ IdentityAkCert
    \/ RangeQuotes
    \/ CheckQuote
    \/ ReplayEventLog
    \/ ReplayCanonicalEventLog
    \/ CheckSHA1
    \/ MergeAndReturn
    \/ ReturnExhausted

Spec == Init /\ [][Next]_vars

----------------------------------------------------------------------------
(* Vocabulary of the properties *)

IsErr(e, msg) == e # Nil /\ e.msg = msg

IsErrCause(e, msg, causeMsg) == IsErr(e, msg) /\ IsErr(e.cause, causeMsg)

Done == pc = "done"

Succeeded == Done /\ ret.returned /\ ret.err = Nil /\ ret.state # Nil

Called(fn, quote) == \E i \in 1..Len(calls) : calls[i].fn = fn /\ calls[i].quote = quote.id

CalledAny(fn) == \E i \in 1..Len(calls) : calls[i].fn = fn

CandidateCalls == {"VerifyQuote", "parsePCClientEventLog", "parseCanonicalEventLog"}

NoCandidateCall == \A i \in 1..Len(calls) : calls[i].fn \notin CandidateCalls

IdentityEstablished == akPubKey # NoKey

HasCert == attestation.AkCert # Nil

OptsValid == (Len(opts.TrustedAKs) > 0) # (Len(opts.TrustedRootCerts) > 0)

\* The quote passes the quote check under key and nonce, and both replays.
Verifies(quote, key, nonce) ==
    /\ quote.signer = key /\ quote.nonce = nonce
    /\ quote.replaysEventLog
    /\ quote.replaysCanonicalEventLog

\* ... and the SHA-1 policy.
FullyPasses(quote, key, o) ==
    Verifies(quote, key, o.Nonce) /\ (quote.Hash # AlgSHA1 \/ o.AllowSHA1)

----------------------------------------------------------------------------
(* C1 *)

\* C1: a call that ends returns either a MachineState and no error, for which
\* one quote of the bundle passed the quote check against the established key
\* and opts.Nonce, both log replays and the SHA-1 policy in this call, or an
\* error and a nil MachineState; no call ends with both or with neither.
C1_StateXorError ==
    Done =>
        /\ (ret.state # Nil) # (ret.err # Nil)
        /\ (ret.err # Nil => ret.state = Nil)
        /\ (ret.state # Nil /\ ret.err = Nil =>
              \E i \in 1..Len(attestation.Quotes) :
                 LET quote == attestation.Quotes[i]
                 IN /\ FullyPasses(quote, akPubKey, opts)
                    /\ IdentityEstablished
                    /\ \E j \in 1..Len(calls) :
                          calls[j] = Call("VerifyQuote", quote.id, akPubKey, opts.Nonce)
                    /\ Called("parsePCClientEventLog", quote)
                    /\ Called("parseCanonicalEventLog", quote))

\* The part of C1 that holds of every call that returns.
C1_ReturnedStateIsVerified ==
    (Done /\ ret.returned) =>
        /\ (ret.state # Nil) # (ret.err # Nil)
        /\ (ret.state # Nil =>
              \E i \in 1..Len(attestation.Quotes) :
                 LET quote == attestation.Quotes[i]
                 IN /\ FullyPasses(quote, akPubKey, opts)
                    /\ IdentityEstablished
                    /\ \E j \in 1..Len(calls) :
                          calls[j] = Call("VerifyQuote", quote.id, akPubKey, opts.Nonce)
                    /\ Called("parsePCClientEventLog", quote)
                    /\ Called("parseCanonicalEventLog", quote))

----------------------------------------------------------------------------
(* C2 *)

QuoteCheckKeys == {calls[i].key : i \in {j \in 1..Len(calls) : calls[j].fn = "VerifyQuote"}}

InTrustedAKs(key) == \E i \in 1..Len(opts.TrustedAKs) : opts.TrustedAKs[i] = key

\* (i) no certificate: the key decoded from AkPub is in opts.TrustedAKs.
TrustedByAkPub(key) ==
    /\ ~HasCert
    /\ attestation.AkPub # Malformed
    /\ attestation.AkPub.Key = key
    /\ InTrustedAKs(key)

\* (ii) certificate, no roots: its key is in opts.TrustedAKs, no chain verification.
TrustedByCertKey(key) ==
    /\ HasCert /\ attestation.AkCert # Malformed
    /\ Len(opts.TrustedRootCerts) = 0
    /\ attestation.AkCert.PublicKey = key
    /\ InTrustedAKs(key)
    /\ ~CalledAny("Certificate.Verify")

\* (iii) certificate and roots: the chain verification of the certificate succeeded.
TrustedByChain(key) ==
    /\ HasCert /\ attestation.AkCert # Malformed
    /\ Len(opts.TrustedRootCerts) > 0
    /\ attestation.AkCert.PublicKey = key
    /\ CalledAny("Certificate.Verify")
    /\ FilterSAN(attestation.AkCert.UnhandledCriticalExtensions) = <<>>
    /\ ChainsTo(attestation.AkCert.Issuer, Range(opts.TrustedRootCerts),
                Range(opts.IntermediateCerts), Len(opts.IntermediateCerts))

\* C2: the key of every quote check of a call (so of every call that succeeds)
\* is the one established key, trusted by exactly one of: AkPub in TrustedAKs
\* (no certificate); the certificate's key in TrustedAKs with no chain
\* verification (certificate, no roots); a successful chain verification
\* (certificate, roots).  With a certificate AkPub is never decoded.
C2_KeyTrustedByOneMechanism ==
    /\ \A key \in QuoteCheckKeys :
          /\ key = akPubKey
          /\ \/ TrustedByAkPub(key) /\ ~TrustedByCertKey(key) /\ ~TrustedByChain(key)
             \/ ~TrustedByAkPub(key) /\ TrustedByCertKey(key) /\ ~TrustedByChain(key)
             \/ ~TrustedByAkPub(key) /\ ~TrustedByCertKey(key) /\ TrustedByChain(key)
    /\ Succeeded => QuoteCheckKeys # {}
    /\ HasCert => ~CalledAny("tpm2.DecodePublic")

\* A call with a certificate and roots succeeded although AkPub holds another key.
C2_Witness ==
    /\ Succeeded
    /\ TrustedByChain(akPubKey)
    /\ attestation.AkPub # Malformed
    /\ attestation.AkPub.Key # akPubKey
    /\ QuoteCheckKeys = {akPubKey}

----------------------------------------------------------------------------
(* C3 *)

----------------------------------------------------------------------------
(* C4 *)

\* The identity failures of the bundle under the options, each as the message
\* of the error and of its cause ("" where the cause is a library's).
IdentityFailures ==
    LET cert == attestation.AkCert
        area == attestation.AkPub
    IN IF ~HasCert
       THEN IF area = Malformed
            THEN {<<"failed to decode AK public area", "">>}
            ELSE IF area.Key = NoKey
            THEN {<<"failed to get AK public key", "">>}
            ELSE IF ~InTrustedAKs(area.Key)
            THEN {<<"failed to validate AK public key", "key not trusted">>}
            ELSE {}
       ELSE IF cert = Malformed
       THEN {<<"failed to parse AK certificate", "">>}
       ELSE {<<"attestation intermediates", "">> :
                i \in {j \in 1..Len(attestation.IntermediateCerts) :
                          attestation.IntermediateCerts[j] = Malformed}}
            \cup
            (IF Len(opts.TrustedRootCerts) = 0
             THEN IF ~InTrustedAKs(cert.PublicKey)
                  THEN {<<"failed to validate AK certificate", "key not trusted">>}
                  ELSE {}
             ELSE IF \/ FilterSAN(cert.UnhandledCriticalExtensions) # <<>>
                     \/ ~ChainsTo(cert.Issuer, Range(opts.TrustedRootCerts),
                                  Range(opts.IntermediateCerts)
                                    \cup (Range(attestation.IntermediateCerts) \ {Malformed}),
                                  Len(opts.IntermediateCerts) + Len(attestation.IntermediateCerts))
                  THEN {<<"failed to validate AK certificate",
                          "certificate did not chain to a trusted root">>}
                  ELSE IF getInstanceInfo(cert.Extensions).err # Nil
                  THEN {<<"failed to validate AK certificate", "error getting instance info">>}
                  ELSE {})

MatchesFailure(e, f) ==
    /\ IsErr(e, f[1])
    /\ f[2] # "" => IsErr(e.cause, f[2])

\* C4: when identity establishment fails (valid options), the call returns an
\* identity error of a failure that is present, with a nil MachineState, and
\* never invokes the quote check or a log replay for any candidate.
C4_IdentityFailureIsFatal ==
    (OptsValid /\ IdentityFailures # {}) =>
        /\ NoCandidateCall
        /\ pc \in {"validateOpts", "identity", "done"}
        /\ Done => /\ ret.state = Nil
                   /\ \E f \in IdentityFailures : MatchesFailure(ret.err, f)

\* The certificate does not chain to a root, the bundle holds a quote that
\* would verify under the certificate's key, and the call failed.
C4_Witness ==
    /\ Done
    /\ OptsValid
    /\ IsErrCause(ret.err, "failed to validate AK certificate",
                  "certificate did not chain to a trusted root")
    /\ Len(attestation.Quotes) > 0
    /\ FullyPasses(attestation.Quotes[1], attestation.AkCert.PublicKey, opts)

----------------------------------------------------------------------------
(* C5 *)

\* Position of an algorithm in the preference list (0: not in it).
PrefIndex(alg) ==
    IF \E i \in 1..Len(pcrHashAlgs) : pcrHashAlgs[i] = alg
    THEN CHOOSE i \in 1..Len(pcrHashAlgs) : pcrHashAlgs[i] = alg
    ELSE 0

\* The candidates of the bundle: per algorithm of the preference list the
\* first quote of the input with that algorithm.
IsCandidate(quote) ==
    /\ PrefIndex(quote.Hash) > 0
    /\ \A i \in 1..Len(attestation.Quotes) :
          attestation.Quotes[i].Hash = quote.Hash => quote.id <= i

Candidates == {q \in Range(attestation.Quotes) : IsCandidate(q)}

QuoteById(id) == CHOOSE q \in Range(attestation.Quotes) : q.id = id

Earlier(q1, q2) == PrefIndex(q1.Hash) < PrefIndex(q2.Hash)

\* The collaborator calls of the log that are made for a candidate.
CandidateCallLog == SelectSeq(calls, LAMBDA c : c.fn \in CandidateCalls)

\* Calls are made for candidates only, in preference order, one quote check
\* per candidate.
TriedInPreferenceOrder ==
    LET log == CandidateCallLog
    IN /\ \A i \in 1..Len(log) : QuoteById(log[i].quote) \in Candidates
       /\ \A i \in 1..(Len(log) - 1) :
             IF log[i + 1].fn = "VerifyQuote"
             THEN Earlier(QuoteById(log[i].quote), QuoteById(log[i + 1].quote))
             ELSE log[i].quote = log[i + 1].quote

\* C5: candidates are tried in preference order, and a call with an established
\* identity and a candidate that passes every stage succeeds on the first such
\* candidate: every earlier candidate was tried and failed a stage, and no
\* collaborator is invoked for a later candidate.
C5_SucceedsOnFirstPassingCandidate ==
    /\ TriedInPreferenceOrder
    /\ (Done /\ IdentityEstablished) =>
          \A q \in Candidates :
             (/\ FullyPasses(q, akPubKey, opts)
              /\ \A e \in Candidates : Earlier(e, q) => ~FullyPasses(e, akPubKey, opts))
             => /\ Succeeded
                /\ \A e \in Candidates : Earlier(e, q) => Called("VerifyQuote", e)
                /\ \A l \in Candidates :
                      Earlier(q, l) => \A fn \in CandidateCalls : ~Called(fn, l)

\* The part of C5 that holds of every call: the order, and what a call that
\* returned a MachineState tried.
C5_ReturnedOnFirstPassingCandidate ==
    /\ TriedInPreferenceOrder
    /\ Succeeded =>
          \E q \in Candidates :
             /\ FullyPasses(q, akPubKey, opts)
             /\ \A e \in Candidates :
                   Earlier(e, q) => ~FullyPasses(e, akPubKey, opts) /\ Called("VerifyQuote", e)
             /\ \A l \in Candidates :
                   Earlier(q, l) => \A fn \in CandidateCalls : ~Called(fn, l)

----------------------------------------------------------------------------
(* C6 *)

\* The certificate-derived instance identity: none without a certificate.
CertInstanceInfo ==
    IF HasCert /\ Len(opts.TrustedRootCerts) > 0
    THEN getInstanceInfo(attestation.AkCert.Extensions).info
    ELSE Nil

\* The candidate the last collaborator call was made for.
LastTried == QuoteById(calls[Len(calls)].quote)

\* C6: the MachineState returned holds the instance identity of the
\* certificate (if any) and, in every other field, what the two replays read
\* for the successful candidate; nothing read for another candidate is in it.
C6_ResultMergesSuccessfulCandidateOnly ==
    Succeeded =>
        LET q == LastTried
        IN /\ FullyPasses(q, akPubKey, opts)
           /\ ret.state =
                [Platform |-> [Firmware |-> Measured("EventLog", q),
                               InstanceInfo |-> CertInstanceInfo],
                 Hash |-> q.Hash,
                 RawEvents |-> <<Measured("EventLog", q)>>,
                 Cos |-> Measured("CanonicalEventLog", q)]

\* Success after an earlier candidate's primary log replayed and its canonical
\* log did not, with a certificate that carries an instance identity.
C6_Witness ==
    /\ Succeeded
    /\ CertInstanceInfo # Nil
    /\ \E e \in Candidates :
          /\ e.id # LastTried.id
          /\ Called("parseCanonicalEventLog", e)

----------------------------------------------------------------------------
(* C7 *)

\* The error recorded for a candidate that fails: that of the first stage it fails.
StageError(q) ==
    IF ~(q.signer = akPubKey /\ q.nonce = opts.Nonce)
    THEN Wrap("failed to verify quote", CollabError("VerifyQuote", q))
    ELSE IF ~q.replaysEventLog
    THEN Wrap("failed to validate the PCClient event log",
              CollabError("parsePCClientEventLog", q))
    ELSE IF ~q.replaysCanonicalEventLog
    THEN Wrap("failed to validate the Canonical event log",
              CollabError("parseCanonicalEventLog", q))
    ELSE Error("SHA-1 is not allowed for verification (set VerifyOpts.AllowSHA1 to true to allow)")

AllCandidatesFail ==
    /\ Candidates # {}
    /\ \A q \in Candidates : ~FullyPasses(q, akPubKey, opts)

LowestCandidate == CHOOSE q \in Candidates : \A e \in Candidates : ~Earlier(q, e)

\* C7: identity established and every candidate failing, the call returns the
\* error of the stage that rejected the lowest-preference candidate, and a nil
\* MachineState.
C7_LastCandidateErrorReturned ==
    (Done /\ IdentityEstablished /\ AllCandidatesFail) =>
        /\ ret.returned
        /\ ret.state = Nil
        /\ ret.err = StageError(LowestCandidate)

\* Two candidates rejected at different stages: the second one's error returned.
C7_Witness ==
    /\ Done /\ IdentityEstablished /\ AllCandidatesFail
    /\ \E e \in Candidates :
          /\ Earlier(e, LowestCandidate)
          /\ StageError(e).msg # StageError(LowestCandidate).msg
    /\ ret.err = StageError(LowestCandidate)

----------------------------------------------------------------------------
(* C8 *)

NoQuoteError == Error("attestation does not contain a supported quote")

\* C8 as claimed: identity established, zero quotes return the no-supported-
\* quote error and a bundle with at least one quote never returns it.
C8_AsClaimed ==
    (Done /\ IdentityEstablished) =>
        /\ Len(attestation.Quotes) = 0 => ret.err = NoQuoteError /\ ret.state = Nil
        /\ Len(attestation.Quotes) > 0 => ret.err # NoQuoteError

\* C8 amended: identity established, a bundle with no quote of an algorithm of
\* the preference list (so one with zero quotes) returns the no-supported-quote
\* error, and a bundle with a quote of such an algorithm never returns it.
C8_NoSupportedQuoteError ==
    (Done /\ IdentityEstablished) =>
        /\ Candidates = {} => ret.err = NoQuoteError /\ ret.state = Nil
        /\ Len(attestation.Quotes) = 0 => ret.err = NoQuoteError
        /\ Candidates # {} => ret.err # NoQuoteError

\* A bundle with zero quotes got the no-supported-quote error.
C8_Witness ==
    /\ Done /\ IdentityEstablished
    /\ Len(attestation.Quotes) = 0
    /\ ret.err = NoQuoteError

----------------------------------------------------------------------------
(* C9 *)

SHA1Error ==
    Error("SHA-1 is not allowed for verification (set VerifyOpts.AllowSHA1 to true to allow)")

\* C9: identity established, a bundle whose only quote uses SHA-1 and passes
\* the quote check and both replays fails with the SHA-1 policy error when
\* AllowSHA1 is false and succeeds when AllowSHA1 is true.
C9_SHA1Gating ==
    (/\ Done /\ IdentityEstablished
     /\ Len(attestation.Quotes) = 1
     /\ attestation.Quotes[1].Hash = AlgSHA1
     /\ Verifies(attestation.Quotes[1], akPubKey, opts.Nonce))
    => IF opts.AllowSHA1
       THEN Succeeded
       ELSE ret.err = SHA1Error /\ ret.state = Nil

\* The part of C9 that holds of every call: the policy error without the
\* flag, and with it no error.
C9_SHA1GatingOfReturns ==
    (/\ Done /\ IdentityEstablished
     /\ Len(attestation.Quotes) = 1
     /\ attestation.Quotes[1].Hash = AlgSHA1
     /\ Verifies(attestation.Quotes[1], akPubKey, opts.Nonce))
    => IF opts.AllowSHA1
       THEN ret.err = Nil /\ (ret.returned => Succeeded)
       ELSE ret.err = SHA1Error /\ ret.state = Nil

----------------------------------------------------------------------------
(* supportedQuotes applied on its own *)

\* Largest number of quotes handed to supportedQuotes.
MaxSelect == 3

SelectAlgs == {"SHA512", "SHA384", "SHA256", AlgSHA1, AlgUnsupported}

SelectInputs == QuoteLists({GoodQuote(a) : a \in SelectAlgs}, MaxSelect)

\* The variables of one call of VerifyAttestation, pc aside.
callVars == <<opts, attestation, akPubKey, machineState, lastErr, candidates,
              state, celState, akCert, ret, calls, callerOpts, x509Opts>>

\* No call of VerifyAttestation is running.
NoCall ==
    /\ attestation = Attestation(PublicArea("k1"), Nil, <<>>, <<>>)
    /\ akPubKey = NoKey
    /\ machineState = Nil
    /\ lastErr = Nil
    /\ candidates = <<>>
    /\ state = Nil
    /\ celState = Nil
    /\ akCert = Nil
    /\ ret = NoReturn
    /\ calls = <<>>
    /\ x509Opts = Nil

InitSelect ==
    /\ sqIn \in SelectInputs
    /\ sqOut = <<>>
    /\ pc = "supportedQuotes"
    /\ opts = [Nonce |-> "n1", TrustedAKs |-> <<"k1">>, AllowSHA1 |-> FALSE,
               TrustedRootCerts |-> <<>>, IntermediateCerts |-> <<>>]
    /\ callerOpts = opts
    /\ NoCall
    /\ helperIn = Nil
    /\ helperOut = Nil
    /\ backingArray = <<>>
    /\ goroutines = <<>>

\* out := supportedQuotes(quotes)
ApplySupportedQuotes ==
    /\ pc = "supportedQuotes"
    /\ sqOut' = supportedQuotes(sqIn)
    /\ pc' = "selected"
    /\ UNCHANGED <<callVars, sqIn, helperIn, helperOut, concurrentVars>>

\* The caller hands over the same quotes with two neighbours exchanged.
ExchangeAndApply ==
    /\ pc = "selected"
    /\ \E i \in 1..(Len(sqIn) - 1) :
          /\ sqIn' = [sqIn EXCEPT ![i] = sqIn[i + 1], ![i + 1] = sqIn[i]]
          /\ sqOut' = supportedQuotes(sqIn')
    /\ UNCHANGED <<callVars, pc, helperIn, helperOut, concurrentVars>>

NextSelect == ApplySupportedQuotes \/ ExchangeAndApply

SpecSelect == InitSelect /\ [][NextSelect]_vars

----------------------------------------------------------------------------
(* C10 *)

DistinctHashes(quotes) ==
    \A i, j \in 1..Len(quotes) : quotes[i].Hash = quotes[j].Hash => i = j

Rearrangements(quotes) ==
    { [i \in 1..Len(quotes) |-> quotes[f[i]]] :
        f \in {g \in [1..Len(quotes) -> 1..Len(quotes)] :
                 \A i, j \in 1..Len(quotes) : g[i] = g[j] => i = j} }

\* C10: for quotes of pairwise distinct algorithms the output holds exactly the
\* quotes whose algorithm is in the preference list, by position of the
\* algorithm in that list (SHA-1 last), and every permutation of the input
\* gives that same output.
C10_OrderIndependent ==
    (pc = "selected" /\ DistinctHashes(sqIn)) =>
        /\ Range(sqOut) = {q \in Range(sqIn) : PrefIndex(q.Hash) > 0}
        /\ \A i, j \in 1..Len(sqOut) :
              i < j => PrefIndex(sqOut[i].Hash) < PrefIndex(sqOut[j].Hash)
        /\ \A q \in Range(sqOut) : q.Hash = AlgSHA1 => sqOut[Len(sqOut)] = q
        /\ \A p \in Rearrangements(sqIn) : supportedQuotes(p) = sqOut

\* SHA-1 first, an unsupported algorithm and SHA-256 last in the input: the
\* output is the SHA-256 quote, then the SHA-1 quote.
C10_Witness ==
    /\ pc = "selected"
    /\ Len(sqIn) = 3
    /\ sqIn[1].Hash = AlgSHA1 /\ sqIn[2].Hash = AlgUnsupported /\ sqIn[3].Hash = "SHA256"
    /\ sqOut = <<sqIn[3], sqIn[1]>>

----------------------------------------------------------------------------
(* C11 *)

\* The instance-identifier extensions of the bundle's certificate.
InstanceExtensionValues ==
    LET exts == attestation.AkCert.Extensions
    IN {exts[i].Value : i \in {j \in 1..Len(exts) :
                                  exts[j].Id = cloudComputeInstanceIdentifierOID}}

\* The public record of a decoded extension value.
RecordOf(value) ==
    [Zone |-> value.Zone, ProjectId |-> value.ProjectID,
     ProjectNumber |-> value.ProjectNumber, InstanceName |-> value.InstanceName,
     InstanceId |-> value.InstanceID]

\* C11: a call that succeeds on the raw-key path returns a MachineState with
\* no instance identity; one that succeeds on the certificate path with roots
\* and a valid production extension returns the record decoded from it.
C11_InstanceIdentityOfResult ==
    Succeeded =>
        /\ ~HasCert => ret.state.Platform.InstanceInfo = Nil
        /\ (HasCert /\ Len(opts.TrustedRootCerts) > 0) =>
              \A v \in InstanceExtensionValues :
                 (/\ v # Malformed
                  /\ v.ProjectNumber >= 0 /\ v.InstanceID >= 0
                  /\ v.SecurityProperties.SecurityVersion >= 0
                  /\ v.SecurityProperties.IsProduction)
                 => ret.state.Platform.InstanceInfo = RecordOf(v)

\* Success on the certificate path with a production extension.
C11_Witness ==
    /\ Succeeded
    /\ HasCert
    /\ \E v \in InstanceExtensionValues :
          /\ v # Malformed
          /\ v.SecurityProperties.IsProduction
          /\ ret.state.Platform.InstanceInfo = RecordOf(v)
          /\ ret.state.Platform.InstanceInfo.ProjectNumber = 42

----------------------------------------------------------------------------
(* C13 *)

\* C13: on the certificate path with an allow-listed key (no roots
\* configured) and a candidate that passes every stage, the call returns a
\* non-nil MachineState holding that candidate's fragments, and no error.
C13_AllowListedCertKeySucceeds ==
    (/\ Done
     /\ HasCert
     /\ Len(opts.TrustedRootCerts) = 0
     /\ IdentityEstablished
     /\ \E q \in Candidates : FullyPasses(q, akPubKey, opts))
    => /\ Succeeded
       /\ \E q \in Candidates :
             /\ FullyPasses(q, akPubKey, opts)
             /\ ret.state.Platform.Firmware = Measured("EventLog", q)
             /\ ret.state.Cos = Measured("CanonicalEventLog", q)

----------------------------------------------------------------------------
(* C14 *)

StageIndex(fn) ==
    CASE fn = "VerifyQuote" -> 1
      [] fn = "parsePCClientEventLog" -> 2
      [] fn = "parseCanonicalEventLog" -> 3

\* The candidate passed the quote check in this call.
QuoteChecked(q) ==
    Called("VerifyQuote", q) /\ q.signer = akPubKey /\ q.nonce = opts.Nonce

\* C14: per candidate the stages run in the order quote check, primary-log
\* replay, canonical-log replay, SHA-1 policy, each only after every earlier
\* one succeeded; the SHA-1 error is recorded for a SHA-1 candidate (AllowSHA1
\* false) only if its quote check and both replays succeeded in this call,
\* and otherwise the error of the stage that failed is recorded.
C14_StagesInOrder ==
    LET log == CandidateCallLog
    IN /\ \A i \in 1..(Len(log) - 1) :
             log[i].quote = log[i + 1].quote
                => StageIndex(log[i + 1].fn) = StageIndex(log[i].fn) + 1
       /\ \A q \in Candidates :
             /\ Called("parsePCClientEventLog", q) => QuoteChecked(q)
             /\ Called("parseCanonicalEventLog", q)
                   => Called("parsePCClientEventLog", q) /\ q.replaysEventLog
       /\ pc \in {"policy", "merge"} =>
             LET q == Head(candidates)
             IN /\ QuoteChecked(q)
                /\ Called("parseCanonicalEventLog", q)
                /\ Verifies(q, akPubKey, opts.Nonce)
                /\ pc = "merge" => (q.Hash # AlgSHA1 \/ opts.AllowSHA1)
       /\ lastErr = SHA1Error =>
             /\ ~opts.AllowSHA1
             /\ \E q \in Candidates :
                   /\ q.Hash = AlgSHA1
                   /\ QuoteChecked(q)
                   /\ Called("parseCanonicalEventLog", q)
                   /\ Verifies(q, akPubKey, opts.Nonce)
       /\ (pc = "exhausted" /\ ~opts.AllowSHA1) =>
             \A q \in Candidates :
                q.Hash = AlgSHA1 => lastErr = StageError(q)

\* A SHA-1 candidate (AllowSHA1 false) that passed the quote check and the
\* primary-log replay and failed the canonical-log replay: that error is
\* recorded, not the SHA-1 error.
C14_Witness ==
    /\ pc = "exhausted"
    /\ ~opts.AllowSHA1
    /\ \E q \in Candidates :
          /\ q.Hash = AlgSHA1
          /\ QuoteChecked(q)
          /\ Called("parseCanonicalEventLog", q)
          /\ ~q.replaysCanonicalEventLog
          /\ IsErr(lastErr, "failed to validate the Canonical event log")

----------------------------------------------------------------------------
(* C17 *)

\* The range loop has its candidates and has tried none of them yet.
CandidatesSelected == pc \in {"quote", "exhausted"} /\ NoCandidateCall

\* The quote is the first of the bundle's quotes with its algorithm.
FirstOfItsAlgorithm(quote) ==
    \E i \in 1..Len(attestation.Quotes) :
       /\ attestation.Quotes[i] = quote
       /\ \A j \in 1..(i - 1) : attestation.Quotes[j].Hash # quote.Hash

\* C17: whatever the bundle's quotes (duplicates of an algorithm included),
\* supportedQuotes returns at most one quote per algorithm, each an element of
\* the input and the first of the input with its algorithm, and no more
\* quotes than the input has algorithms of the preference list;
\* VerifyAttestation calls no collaborator for any other quote.
C17_OneQuotePerAlgorithm ==
    /\ CandidatesSelected =>
          /\ \A i, j \in 1..Len(candidates) :
                i # j => candidates[i].Hash # candidates[j].Hash
          /\ \A i \in 1..Len(candidates) : FirstOfItsAlgorithm(candidates[i])
          /\ Len(candidates)
                <= Cardinality({q.Hash : q \in Range(attestation.Quotes)}
                                  \cap Range(pcrHashAlgs))
    /\ \A i \in 1..Len(calls) :
          calls[i].fn \in CandidateCalls =>
             \E q \in Range(attestation.Quotes) :
                q.id = calls[i].quote /\ FirstOfItsAlgorithm(q)

\* Two quotes of one algorithm, the first failing the quote check and the
\* second passing every stage: the call fails and the second was never tried.
C17_Witness ==
    /\ Done
    /\ IdentityEstablished
    /\ Len(attestation.Quotes) = 2
    /\ attestation.Quotes[1].Hash = attestation.Quotes[2].Hash
    /\ ~Verifies(attestation.Quotes[1], akPubKey, opts.Nonce)
    /\ FullyPasses(attestation.Quotes[2], akPubKey, opts)
    /\ Called("VerifyQuote", attestation.Quotes[1])
    /\ ~Called("VerifyQuote", attestation.Quotes[2])
    /\ IsErr(ret.err, "failed to verify quote")

----------------------------------------------------------------------------
(* C18 *)

\* err.Error(): the messages of the chain, outermost first.  The message of a
\* collaborator's error is its own; the collaborator's name stands for it.
RECURSIVE ErrorText(_)
ErrorText(e) ==
    IF e = Nil THEN <<>>
    ELSE IF "from" \in DOMAIN e THEN <<e.from>>
    ELSE <<e.msg>> \o ErrorText(e.cause)

\* The hash algorithms a message names.  Of the messages VerifyAttestation
\* writes only the SHA-1 policy one names an algorithm; the interfaces of the
\* collaborators promise nothing about theirs.
AlgorithmsNamed(msg) ==
    IF msg = "SHA-1 is not allowed for verification (set VerifyOpts.AllowSHA1 to true to allow)"
    THEN {AlgSHA1}
    ELSE {}

AlgorithmsNamedIn(e) == UNION {AlgorithmsNamed(ErrorText(e)[i]) : i \in 1..Len(ErrorText(e))}

\* The stage a returned error's outermost message stands for.
StageNamed(msg) ==
    CASE msg = "bad options" -> "options"
      [] msg \in {"failed to decode AK public area", "failed to get AK public key",
                  "failed to validate AK public key", "failed to parse AK certificate",
                  "attestation intermediates", "failed to validate AK certificate"}
            -> "identity"
      [] msg = "failed to verify quote" -> "quote check"
      [] msg = "failed to validate the PCClient event log" -> "primary-log replay"
      [] msg = "failed to validate the Canonical event log" -> "canonical-log replay"
      [] msg = "SHA-1 is not allowed for verification (set VerifyOpts.AllowSHA1 to true to allow)"
            -> "SHA-1 policy"
      [] msg = "attestation does not contain a supported quote" -> "no candidates"
      [] OTHER -> "none"

\* The stage that rejected the candidate.
FailedStage(q) ==
    IF ~(q.signer = akPubKey /\ q.nonce = opts.Nonce) THEN "quote check"
    ELSE IF ~q.replaysEventLog THEN "primary-log replay"
    ELSE IF ~q.replaysCanonicalEventLog THEN "canonical-log replay"
    ELSE "SHA-1 policy"

\* The stage that produced the error of a call that returned one.
ErrorStage ==
    IF ~OptsValid THEN "options"
    ELSE IF ~IdentityEstablished THEN "identity"
    ELSE IF Candidates = {} THEN "no candidates"
    ELSE FailedStage(LowestCandidate)

ReturnedError == Done /\ ret.returned /\ ret.err # Nil

PerCandidateError ==
    ReturnedError /\ OptsValid /\ IdentityEstablished /\ Candidates # {}

----------------------------------------------------------------------------
(* C19 *)

\* The part of C19 that holds of a call that runs alone: the root pool handed
\* to chain verification is exactly the caller's TrustedRootCerts and the
\* intermediate pool the caller's IntermediateCerts followed by the bundle's;
\* the call's TrustedRootCerts and TrustedAKs stay the caller's, a key is
\* trusted by the allow-list only if the caller listed it, and a certificate
\* is accepted only if it chains to a caller's root.
C19_BundleCertsOnlyIntermediates ==
    /\ opts.TrustedRootCerts = callerOpts.TrustedRootCerts
    /\ opts.TrustedAKs = callerOpts.TrustedAKs
    /\ x509Opts # Nil =>
          /\ x509Opts.Roots = Range(callerOpts.TrustedRootCerts)
          /\ opts.IntermediateCerts
                = callerOpts.IntermediateCerts \o attestation.IntermediateCerts
          /\ x509Opts.Intermediates = Range(opts.IntermediateCerts)
    /\ (IdentityEstablished /\ Len(callerOpts.TrustedRootCerts) = 0)
          => akPubKey \in Range(callerOpts.TrustedAKs)
    /\ (IdentityEstablished /\ Len(callerOpts.TrustedRootCerts) > 0)
          => /\ HasCert
             /\ \E r \in Range(callerOpts.TrustedRootCerts) :
                   \/ r.Subject = attestation.AkCert.Issuer
                   \/ \E i \in Range(callerOpts.IntermediateCerts)
                                  \cup Range(attestation.IntermediateCerts) :
                         i.Subject = attestation.AkCert.Issuer /\ i.Issuer = r.Subject

\* A bundle that brings its own self-signed certificate, the issuer of its AK
\* certificate: it is an intermediate of the pool and no root, and the
\* certificate is rejected.
C19_RejectsBundleRoot ==
    /\ Done
    /\ x509Opts # Nil
    /\ attestation.IntermediateCerts = <<RootRX>>
    /\ attestation.AkCert.Issuer = "RX"
    /\ RootRX \in x509Opts.Intermediates
    /\ RootRX \notin x509Opts.Roots
    /\ IsErrCause(ret.err, "failed to validate AK certificate",
                  "certificate did not chain to a trusted root")

----------------------------------------------------------------------------
(* Concurrent calls *)

\* Two goroutines call VerifyAttestation with the same VerifyOpts value.  The
\* value is copied into each call, the array behind its IntermediateCerts
\* slice is not: both copies point into backingArray.  Each goroutine runs the
\* certificate branch (lines 96-114); the rest of a call reads its own locals
\* only.  A goroutine's akCert is parsed from the bundle's bytes by that call.

MaxSpare == 1        \* cap - len of callerOpts.IntermediateCerts
MaxBundleCerts == 1  \* intermediates a bundle carries

Goroutines == {1, 2}

InterI2 ==
    [Subject |-> "I2", Issuer |-> "R1", PublicKey |-> "kI2",
     UnhandledCriticalExtensions |-> <<>>, Extensions |-> <<>>]

ConcurrentOpts ==
    [Nonce : {"n1"}, TrustedAKs : {<<>>}, AllowSHA1 : {FALSE},
     TrustedRootCerts : {<<RootR1>>}, IntermediateCerts : {<<>>, <<InterI1>>}]

CertLists(certs, n) == UNION { [1..k -> certs] : k \in 0..n }

ConcurrentBundles ==
    { Attestation(PublicArea("k1"),
                  AKCert("k1", <<issuer, <<oidExtensionSubjectAltName>>, <<>> >>),
                  inters, <<>>) :
        issuer \in {"R1", "I1", "I2"},
        inters \in CertLists({InterI1, InterI2}, MaxBundleCerts) }

\* A goroutine at the start of the certificate branch.  intermediates is the
\* goroutine's opts.IntermediateCerts: a slice of the caller's array or of an
\* array of its own.
StartOf(bundle) ==
    [pc |-> "append", bundle |-> bundle, akCert |-> bundle.AkCert,
     intermediates |-> [array |-> "caller", len |-> Len(callerOpts.IntermediateCerts)],
     own |-> <<>>, copied |-> 0, result |-> Nil]

InitConcurrent ==
    /\ pc = "goroutines"
    /\ callerOpts \in ConcurrentOpts
    /\ opts = callerOpts
    /\ NoCall
    /\ \E spare \in 0..MaxSpare :
          backingArray = callerOpts.IntermediateCerts \o [i \in 1..spare |-> Nil]
    /\ \E b1, b2 \in ConcurrentBundles :
          goroutines = [g \in Goroutines |-> StartOf(IF g = 1 THEN b1 ELSE b2)]
    /\ sqIn = <<>>
    /\ sqOut = <<>>
    /\ helperIn = Nil
    /\ helperOut = Nil

\* certs, err := parseCerts(attestation.IntermediateCerts)
BundleCerts(g) == parseCerts(goroutines[g].bundle.IntermediateCerts).certs

\* append has room when len + n <= cap.
HasRoom(g) ==
    /\ goroutines[g].intermediates.array = "caller"
    /\ goroutines[g].intermediates.len + Len(BundleCerts(g)) <= Len(backingArray)

\* append(opts.IntermediateCerts, certs...) with room: one element is copied
\* into the array behind the slice.
CopyElement(g) ==
    /\ goroutines[g].pc = "append"
    /\ HasRoom(g)
    /\ goroutines[g].copied < Len(BundleCerts(g))
    /\ LET i == goroutines[g].copied + 1
       IN /\ backingArray' =
                [backingArray EXCEPT ![goroutines[g].intermediates.len + i] = BundleCerts(g)[i]]
          /\ goroutines' = [goroutines EXCEPT ![g].copied = i]
    /\ UNCHANGED <<callVars, pc, helperVars>>

\* append with room returns the slice with the new length.
ExtendSlice(g) ==
    /\ goroutines[g].pc = "append"
    /\ HasRoom(g)
    /\ goroutines[g].copied = Len(BundleCerts(g))
    /\ goroutines' = [goroutines EXCEPT
                         ![g].intermediates.len = @ + Len(BundleCerts(g)),
                         ![g].pc = "validateAKCert"]
    /\ UNCHANGED <<callVars, pc, helperVars, backingArray>>

\* append without room copies the slice and the new elements into a new array.
GrowSlice(g) ==
    /\ goroutines[g].pc = "append"
    /\ ~HasRoom(g)
    /\ LET old == SubSeq(backingArray, 1, goroutines[g].intermediates.len)
       IN goroutines' = [goroutines EXCEPT
                            ![g].own = old \o BundleCerts(g),
                            ![g].intermediates = [array |-> "own",
                                                  len |-> Len(old) + Len(BundleCerts(g))],
                            ![g].pc = "validateAKCert"]
    /\ UNCHANGED <<callVars, pc, helperVars, backingArray>>

\* The elements of the goroutine's opts.IntermediateCerts.
Elements(g) ==
    IF goroutines[g].intermediates.array = "own"
    THEN goroutines[g].own
    ELSE SubSeq(backingArray, 1, goroutines[g].intermediates.len)

\* machineState, err = validateAKCert(akCert, opts)
ValidateAKCert(g) ==
    /\ goroutines[g].pc = "validateAKCert"
    /\ LET o == [callerOpts EXCEPT !.IntermediateCerts = Elements(g)]
           r == validateAKCert(goroutines[g].akCert, o)
       IN goroutines' = [goroutines EXCEPT
                            ![g].akCert.UnhandledCriticalExtensions = r.unhandled,
                            ![g].result = [state |-> r.state, err |-> r.err,
                                           roots |-> r.roots,
                                           intermediates |-> r.inters],
                            ![g].pc = "done"]
    /\ UNCHANGED <<callVars, pc, helperVars, backingArray>>

NextConcurrent ==
    \E g \in Goroutines :
        CopyElement(g) \/ ExtendSlice(g) \/ GrowSlice(g) \/ ValidateAKCert(g)

SpecConcurrent == InitConcurrent /\ [][NextConcurrent]_vars

----------------------------------------------------------------------------
(* C12 *)

\* What the goroutine's call computes when no other call runs.
Alone(g) ==
    LET b == goroutines[g].bundle
        o == [callerOpts EXCEPT !.IntermediateCerts = @ \o b.IntermediateCerts]
        r == validateAKCert(b.AkCert, o)
    IN [state |-> r.state, err |-> r.err, roots |-> r.roots, intermediates |-> r.inters]

\* C12: two concurrent calls given the same VerifyOpts value are independent:
\* each call sees the configured intermediates followed by those of its own
\* bundle and ends as it would alone, and the caller's options stay as they
\* were.
C12_ConcurrentCallsIndependent ==
    /\ SubSeq(backingArray, 1, Len(callerOpts.IntermediateCerts))
          = callerOpts.IntermediateCerts
    /\ \A g \in Goroutines :
          goroutines[g].pc = "done" => goroutines[g].result = Alone(g)

\* Without spare capacity behind callerOpts.IntermediateCerts every append
\* allocates, and the calls are independent.
IndependentWithoutSpareCapacity ==
    Len(backingArray) = Len(callerOpts.IntermediateCerts) =>
        \A g \in Goroutines :
            goroutines[g].pc = "done" => goroutines[g].result = Alone(g)

----------------------------------------------------------------------------
(* getInstanceInfo on its own *)

MaxExtensions == 2  \* extensions of a certificate

\* What an extension with the instance-identifier OID can hold: no bytes,
\* bytes that do not decode, or an encoded gceInstanceInfo.
ExtensionValues ==
    {Nil, Malformed} \cup
    [Zone : {"us-east1-b"}, ProjectNumber : {-1, 0, 42}, ProjectID : {"proj"},
     InstanceID : {-1, 7}, InstanceName : {"vm"},
     SecurityProperties : [SecurityVersion : {-1, 1}, IsProduction : BOOLEAN]]

Extensions ==
    {[Id |-> oidOther, Value |-> Malformed]} \cup {InstanceExtension(v) : v \in ExtensionValues}

ExtensionLists == UNION { [1..k -> Extensions] : k \in 0..MaxExtensions }

DefaultOpts ==
    [Nonce |-> "n1", TrustedAKs |-> <<"k1">>, AllowSHA1 |-> FALSE,
     TrustedRootCerts |-> <<>>, IntermediateCerts |-> <<>>]

InitInfo ==
    /\ pc = "getInstanceInfo"
    /\ helperIn \in ExtensionLists
    /\ helperOut = Nil
    /\ opts = DefaultOpts
    /\ callerOpts = opts
    /\ NoCall
    /\ sqIn = <<>>
    /\ sqOut = <<>>
    /\ backingArray = <<>>
    /\ goroutines = <<>>

\* instanceInfo, err := getInstanceInfo(extensions)
ApplyGetInstanceInfo ==
    /\ pc = "getInstanceInfo"
    /\ helperOut' = getInstanceInfo(helperIn)
    /\ pc' = "gotInstanceInfo"
    /\ UNCHANGED <<callVars, sqIn, sqOut, helperIn, concurrentVars>>

NextInfo == ApplyGetInstanceInfo

SpecInfo == InitInfo /\ [][NextInfo]_vars

----------------------------------------------------------------------------
(* C15 *)

\* The extensions of the input that carry the instance-identifier OID.
InstanceExtensions ==
    SelectSeq(helperIn, LAMBDA e : e.Id = cloudComputeInstanceIdentifierOID)

Decodes(value) == value # Nil /\ value # Malformed

HasNegativeField(value) ==
    \/ value.ProjectNumber < 0
    \/ value.InstanceID < 0
    \/ value.SecurityProperties.SecurityVersion < 0

\* C15: getInstanceInfo returns (nil, nil) when no extension has the OID;
\* otherwise the first one decides: a negative project number, instance id or
\* security version is an error (production or not), non-negative fields
\* without the production flag give (nil, nil), and with it the record of the
\* decoded zone, project id, project number, instance id and instance name.
C15_InstanceInfoOutcome ==
    pc = "gotInstanceInfo" =>
        IF InstanceExtensions = <<>>
        THEN helperOut = [info |-> Nil, err |-> Nil]
        ELSE LET v == InstanceExtensions[1].Value
             IN Decodes(v) =>
                   IF HasNegativeField(v)
                   THEN helperOut.err # Nil /\ helperOut.info = Nil
                   ELSE IF ~v.SecurityProperties.IsProduction
                   THEN helperOut = [info |-> Nil, err |-> Nil]
                   ELSE helperOut = [info |-> RecordOf(v), err |-> Nil]

\* A negative field without the production flag in the first extension with
\* the OID, a valid production record in the second: an error.
C15_Witness ==
    /\ pc = "gotInstanceInfo"
    /\ Len(InstanceExtensions) = 2
    /\ Decodes(InstanceExtensions[1].Value)
    /\ HasNegativeField(InstanceExtensions[1].Value)
    /\ ~InstanceExtensions[1].Value.SecurityProperties.IsProduction
    /\ Decodes(InstanceExtensions[2].Value)
    /\ ~HasNegativeField(InstanceExtensions[2].Value)
    /\ InstanceExtensions[2].Value.SecurityProperties.IsProduction
    /\ helperOut.err # Nil

----------------------------------------------------------------------------
(* validateAKCert on its own *)

MaxUnhandled == 3  \* unhandled critical extensions of a certificate

UnhandledLists ==
    UNION { [1..k -> {oidExtensionSubjectAltName, oidOther, oidExtensionNameConstraints}] :
               k \in 0..MaxUnhandled }

CertInputs ==
    { [cert |-> AKCert("k1", <<issuer, unhandled, <<>> >>), opts |-> o] :
        issuer \in {"R1", "RX"},
        unhandled \in UnhandledLists,
        o \in { [DefaultOpts EXCEPT !.TrustedAKs = <<>>, !.TrustedRootCerts = <<RootR1>>],
                DefaultOpts } }

InitCert ==
    /\ pc = "validateAKCert"
    /\ helperIn \in CertInputs
    /\ helperOut = Nil
    /\ opts = DefaultOpts
    /\ callerOpts = opts
    /\ NoCall
    /\ sqIn = <<>>
    /\ sqOut = <<>>
    /\ backingArray = <<>>
    /\ goroutines = <<>>

\* machineState, err = validateAKCert(akCert, opts); helperOut.unhandled is
\* akCert.UnhandledCriticalExtensions after the call.
ApplyValidateAKCert ==
    /\ pc = "validateAKCert"
    /\ helperOut' = validateAKCert(helperIn.cert, helperIn.opts)
    /\ pc' = "validatedAKCert"
    /\ UNCHANGED <<callVars, sqIn, sqOut, helperIn, concurrentVars>>

NextCert == ApplyValidateAKCert

SpecCert == InitCert /\ [][NextCert]_vars

----------------------------------------------------------------------------
(* C16 *)

UnhandledBefore == helperIn.cert.UnhandledCriticalExtensions

VerifyCalled == \E i \in 1..Len(helperOut.log) : helperOut.log[i].fn = "Certificate.Verify"

UnhandledExtensionError ==
    IsErrCause(helperOut.err, "certificate did not chain to a trusted root",
               "x509: unhandled critical extension")

\* C16: with roots configured, the certificate's list of unhandled critical
\* extensions after validateAKCert is the original list without its SAN
\* entries, the others kept in order; a list of SAN entries only reaches
\* chain verification empty, and any other entry is still in the list chain
\* verification sees, which rejects the certificate for it.
C16_OnlySANFiltered ==
    (pc = "validatedAKCert" /\ Len(helperIn.opts.TrustedRootCerts) > 0) =>
        /\ helperOut.unhandled
              = SelectSeq(UnhandledBefore, LAMBDA e : e # oidExtensionSubjectAltName)
        /\ VerifyCalled
        /\ (\A i \in 1..Len(UnhandledBefore) : UnhandledBefore[i] = oidExtensionSubjectAltName)
              => helperOut.unhandled = <<>> /\ ~UnhandledExtensionError
        /\ \A i \in 1..Len(UnhandledBefore) :
              UnhandledBefore[i] # oidExtensionSubjectAltName
                 => /\ \E j \in 1..Len(helperOut.unhandled) :
                          helperOut.unhandled[j] = UnhandledBefore[i]
                    /\ UnhandledExtensionError

\* Two other entries around a SAN entry: both are kept, in order.
C16_Witness ==
    /\ pc = "validatedAKCert"
    /\ Len(helperIn.opts.TrustedRootCerts) > 0
    /\ UnhandledBefore = <<oidOther, oidExtensionSubjectAltName, oidExtensionNameConstraints>>
    /\ helperOut.unhandled = <<oidOther, oidExtensionNameConstraints>>
    /\ UnhandledExtensionError

----------------------------------------------------------------------------
(* C19 *)

\* C19: in every call the root pool of chain verification is exactly the
\* configured TrustedRootCerts and the intermediate pool exactly the
\* configured intermediates and those of the call's own bundle; no
\* certificate of a bundle is in a root pool.
C19_PoolsOfEveryCall ==
    \A g \in Goroutines :
        goroutines[g].pc = "done" =>
            /\ goroutines[g].result.roots = Range(callerOpts.TrustedRootCerts)
            /\ goroutines[g].result.intermediates
                  = Range(callerOpts.IntermediateCerts)
                       \cup Range(goroutines[g].bundle.IntermediateCerts)

\* The part of C19 that holds of concurrent calls as well: the root pool is
\* the caller's, and a pool of intermediates holds configured intermediates
\* and intermediates of the bundles only.
RootPoolIsCallers ==
    \A g \in Goroutines :
        goroutines[g].pc = "done" =>
            /\ goroutines[g].result.roots = Range(callerOpts.TrustedRootCerts)
            /\ goroutines[g].result.intermediates
                  \subseteq Range(callerOpts.IntermediateCerts)
                       \cup UNION {Range(goroutines[h].bundle.IntermediateCerts) : h \in Goroutines}

----------------------------------------------------------------------------
(* C20 *)

\* A bundle without a certificate, verified under root-based trust.
RawKeyUnderRoots ==
    /\ ~HasCert
    /\ Len(opts.TrustedRootCerts) > 0
    /\ Len(opts.TrustedAKs) = 0

KeyNotTrustedError ==
    Wrap("failed to validate AK public key", Error("key not trusted"))

\* C20 as claimed: such a call fails with the key-not-trusted identity error
\* whatever the key, the quotes and the logs, and checks no quote.
C20_AsClaimed ==
    (Done /\ RawKeyUnderRoots) =>
        /\ ret.state = Nil
        /\ ret.err = KeyNotTrustedError
        /\ ~CalledAny("VerifyQuote")

\* C20 amended: such a call fails with an identity error and checks no quote:
\* the key-not-trusted error when AkPub decodes to a public key, the decoding
\* or key-extraction error otherwise.
C20_RawKeyNeverVerifiedUnderRoots ==
    /\ RawKeyUnderRoots => NoCandidateCall /\ ~IdentityEstablished
    /\ (Done /\ RawKeyUnderRoots) =>
          /\ ret.returned
          /\ ret.state = Nil
          /\ IF attestation.AkPub = Malformed
             THEN IsErr(ret.err, "failed to decode AK public area")
             ELSE IF attestation.AkPub.Type \notin {"RSA", "ECC"}
             THEN IsErr(ret.err, "failed to get AK public key")
             ELSE ret.err = KeyNotTrustedError

\* A decodable key and a quote it signed that passes every stage: rejected
\* as not trusted, no quote checked.
C20_Witness ==
    /\ Done
    /\ RawKeyUnderRoots
    /\ attestation.AkPub # Malformed
    /\ attestation.AkPub.Type = "RSA"
    /\ \E q \in Range(attestation.Quotes) :
          FullyPasses(q, attestation.AkPub.Key, opts)
    /\ ret.err = KeyNotTrustedError
    /\ ~CalledAny("VerifyQuote")

====
